---- MODULE Spec2Model ----
(***************************************************************************)
(* Model of the HavyAssistant voice pipeline:                              *)
(*   - VoiceAssistantController (services/assistant_controller.py), the    *)
(*     session state machine;                                              *)
(*   - SpeechRecognitionService (services/speech_recognition.py), the      *)
(*     voice-activity endpointer with noise-floor calibration;             *)
(*   - WakeWordService (services/wake_word.py), the phrase spotter latch;  *)
(*   - AudioCaptureService (services/audio_capture.py), the frame source.  *)
(*                                                                         *)
(* Every handler of the code is one atomic action.  Work the code hands    *)
(* to a thread or a Timer is counted in `workers` and completes in an      *)
(* action of its own, so every interleaving of handlers and worker         *)
(* completions is explored.                                                *)
(*                                                                         *)
(* Units: a loudness (RMS) value r stands for r / 1000; the sensitivity    *)
(* multiplier m stands for m / 10; the noise floor is the exact fraction   *)
(* num / den of loudness units.  One element of audio_buffer is one frame  *)
(* of chunk_size samples, named by its loudness.                           *)
(***************************************************************************)
EXTENDS Integers, Sequences, FiniteSets, TLC

VARIABLES
    state,                  \* VoiceAssistantController.state
    selected_device_index,  \* VoiceAssistantController.selected_device_index
    wake_word,              \* VoiceAssistantController.wake_word
    sensitivity,            \* VoiceAssistantController.sensitivity
    speech,                 \* the SpeechRecognitionService object
    wake,                   \* the WakeWordService object
    audio_is_recording,     \* AudioCaptureService.is_recording
    history,                \* len(GeminiService.conversation_history)
    config,                 \* utils.config_loader.config, the options read
    workers,                \* threads and timers started and not yet finished
    last,                   \* the handler that ran last, with its outcome
    emitted,                \* controller events emitted by that handler
    payload,                \* the values those events carried, by event
    script                  \* a scripted frame source: the loudness of its
                            \* frames and how many of them it has delivered

vars == <<state, selected_device_index, wake_word, sensitivity, speech, wake,
          audio_is_recording, history, config, workers, last, emitted,
          payload, script>>

(***************************************************************************)
(* Program constants: the defaults of the options, and the initial values  *)
(* of SpeechRecognitionService                                             *)
(***************************************************************************)
DefaultSilentFramesToStop == 15
DefaultMinSoundFrames == 3
DefaultSampleRate == 16000
DefaultChunkSize == 1024
DefaultSensitivity == 5
DefaultNoiseFloor == 10
DefaultMultiplier == 20
MultiplierStep == 3     \* 0.3 for each level below 11
MultiplierFloor == 5    \* 0.5
MinSensitivity == 1
MaxSensitivity == 10

\* the options as the code defaults them
DefaultConfig(tts) ==
    [ sample_rate           |-> DefaultSampleRate,
      chunk_size            |-> DefaultChunkSize,
      silent_frames_to_stop |-> DefaultSilentFramesToStop,
      min_sound_frames      |-> DefaultMinSoundFrames,
      sensitivity           |-> DefaultSensitivity,
      tts_enabled           |-> tts ]

\* a settings file with short utterances, which keeps the captures of the
\* model short: one second of audio is two frames (sample_rate 2048 with
\* chunks of 1024 samples), two voice frames open an utterance and two silent
\* frames close it
ShortConfig(tts) ==
    [ sample_rate           |-> 2048,
      chunk_size            |-> 1024,
      silent_frames_to_stop |-> 2,
      min_sound_frames      |-> 2,
      sensitivity           |-> DefaultSensitivity,
      tts_enabled           |-> tts ]

(***************************************************************************)
(* Bounds of the model                                                     *)
(***************************************************************************)
MaxWorkers == 1     \* threads and timers in flight at a time
MaxSound == 2       \* voice frames counted in one capture
MaxCalSamples == 1  \* loudness samples collected by one calibration
MaxHistory == 1     \* question/answer pairs in the conversation history
MaxLead == 5        \* scripted capture: frames before the voice
MaxVoice == 4       \* scripted capture: voice frames
MaxTrail == 20      \* scripted capture: frames after the voice
MaxSamples == 4     \* scripted calibration: frames delivered
Margin == 3         \* sensitivity levels tried beyond each end of the scale

(***************************************************************************)
(* Inputs                                                                  *)
(***************************************************************************)
Loudness == {10, 500}
Devices == {1}
WakeArgs == {"", "alt"}
Levels == {10}
DefaultWakeWord == "default"
SilenceText == "[silence]"
ErrorText == "[error]"
Texts == {"text", SilenceText, ErrorText}
InitSteps == {"wake_word", "speech", "tts", "audio"}

States == {"stopped", "initializing", "listening_wake_word", "recording_command",
           "processing_llm", "speaking", "error"}

Max(a, b) == IF a >= b THEN a ELSE b

RECURSIVE Sum(_)
Sum(s) == IF s = <<>> THEN 0 ELSE Head(s) + Sum(Tail(s))

RECURSIVE Gcd(_, _)
Gcd(a, b) == IF b = 0 THEN a ELSE Gcd(b, a % b)

\* the exact value num / den, in lowest terms
Frac(num, den) == LET g == Gcd(num, den) IN
    IF g = 0 THEN <<0, 1>> ELSE <<num \div g, den \div g>>

\* the mean rounded down to a whole loudness unit
Mean_rounded_down(samples) == Frac(Sum(samples) \div Len(samples), 1)

\* np.mean(samples)
Mean(samples) == Frac(Sum(samples), Len(samples))

(***************************************************************************)
(* SpeechRecognitionService: the object and its methods                    *)
(***************************************************************************)
SpeechInit(cfg) ==
    [ model                  |-> FALSE,
      audio_buffer           |-> <<>>,
      is_recording           |-> FALSE,
      sample_rate            |-> cfg.sample_rate,
      chunk_size             |-> cfg.chunk_size,  \* frames of AudioCaptureService
      SILENT_FRAMES_TO_STOP  |-> cfg.silent_frames_to_stop,
      MIN_SOUND_FRAMES       |-> cfg.min_sound_frames,
      sensitivity            |-> cfg.sensitivity,
      noise_floor            |-> <<DefaultNoiseFloor, 1>>,
      sensitivity_multiplier |-> DefaultMultiplier,
      silent_frames_count    |-> 0,
      sound_frames_count     |-> 0,
      calibration_samples    |-> <<>>,
      is_calibrating         |-> FALSE,
      recording_timer        |-> "None",    \* "None", "armed" or "spent"
      timer_started_at       |-> 0,         \* sound_frames_count at the start
                                            \* of the Timer that is armed
      timers                 |-> 0 ]        \* Timer threads still to fire

\* cancel() that does not keep the Timer from firing
cancel_timer_lets_it_run(s) == s

\* recording_timer.cancel(): a Timer that fired or was cancelled stays spent
cancel_timer(s) ==
    IF s.recording_timer = "armed"
    THEN [s EXCEPT !.recording_timer = "spent",
                   !.timer_started_at = 0,
                   !.timers = @ - 1]
    ELSE s

\* recording_timer = threading.Timer(60.0, _timeout_handler); start(): its
\* 60 s run from now, that is from the voice frames counted so far
new_timer(s) ==
    [s EXCEPT !.recording_timer = "armed",
              !.timer_started_at = s.sound_frames_count,
              !.timers = @ + 1]

\* speech_stop with the capture Timer left running
speech_stop_keeps_timer(s) ==
    [s EXCEPT !.is_recording = FALSE,
              !.is_calibrating = FALSE,
              !.audio_buffer = <<>>,
              !.calibration_samples = <<>>,
              !.silent_frames_count = 0,
              !.sound_frames_count = 0]

speech_stop(s) ==
    LET c == cancel_timer(s) IN
    [c EXCEPT !.is_recording = FALSE,
              !.is_calibrating = FALSE,
              !.audio_buffer = <<>>,
              !.calibration_samples = <<>>,
              !.silent_frames_count = 0,
              !.sound_frames_count = 0,
              !.recording_timer = "None"]

\* initialize that gives a reused service its first noise floor again
speech_initialize_resets_floor(s) ==
    IF s.model
    THEN [speech_stop(s) EXCEPT !.noise_floor = <<DefaultNoiseFloor, 1>>]
    ELSE [s EXCEPT !.model = TRUE]

\* SpeechRecognitionService.initialize
speech_initialize(s) ==
    IF s.model THEN speech_stop(s) ELSE [s EXCEPT !.model = TRUE]

\* update_sensitivity with no lower limit of the multiplier
update_sensitivity_without_floor(s, level) ==
    [s EXCEPT !.sensitivity = level,
              !.sensitivity_multiplier = (MaxSensitivity + 1 - level) * MultiplierStep]

\* update_sensitivity lowering the multiplier by a step at every call
update_sensitivity_by_steps(s, level) ==
    [s EXCEPT !.sensitivity = level,
              !.sensitivity_multiplier = Max(@ - MultiplierStep, MultiplierFloor)]

update_sensitivity(s, level) ==
    [s EXCEPT !.sensitivity = level,
              !.sensitivity_multiplier =
                  Max((MaxSensitivity + 1 - level) * MultiplierStep, MultiplierFloor)]

\* noise_floor * sensitivity_multiplier, as an exact fraction of loudness units
get_voice_threshold(s) ==
    Frac(s.noise_floor[1] * s.sensitivity_multiplier, s.noise_floor[2] * 10)

\* rms > noise_floor * sensitivity_multiplier, in exact arithmetic
is_voice(s, rms) ==
    rms * s.noise_floor[2] * 10 > s.noise_floor[1] * s.sensitivity_multiplier

\* the label process_audio gives a frame: "Тишина", "Шум" or "ГОЛОС"
status(s, rms) ==
    IF rms * s.noise_floor[2] < s.noise_floor[1] THEN "Silence"
    ELSE IF rms * s.noise_floor[2] * 10
                < s.noise_floor[1] * s.sensitivity_multiplier THEN "Noise"
    ELSE "VOICE"

\* start_recording without audio_buffer.clear()
start_recording_keeps_buffer(s) ==
    new_timer(cancel_timer(
        [s EXCEPT !.is_recording = TRUE,
                  !.silent_frames_count = 0,
                  !.sound_frames_count = 0]))

start_recording(s) ==
    new_timer(cancel_timer(
        [s EXCEPT !.is_recording = TRUE,
                  !.audio_buffer = <<>>,
                  !.silent_frames_count = 0,
                  !.sound_frames_count = 0]))

\* no buffer is too short to be transcribed
never_too_short(s) == FALSE

\* len(audio_buffer) < sample_rate
too_short(s) == Len(s.audio_buffer) * s.chunk_size < s.sample_rate

\* calibrate_noise_floor(2.0): int(duration * (sample_rate / 1024))
expected_samples(s) == (2 * s.sample_rate) \div 1024

\* _recognize_speech, the service's own fields; the result is reported by
\* its caller (a silence callback, or a transcription thread)
recognize_speech(s) ==
    LET c == cancel_timer([s EXCEPT !.is_recording = FALSE]) IN
    IF too_short(s) THEN c ELSE [c EXCEPT !.audio_buffer = <<>>]

\* process_audio while calibrating
collect_sample(s, rms) ==
    [s EXCEPT !.calibration_samples = Append(@, rms)]

\* voice_frame that leaves the count of pause frames as it was
voice_frame_keeps_pause(s, rms) ==
    LET a == [s EXCEPT !.sound_frames_count = @ + 1,
                       !.audio_buffer = Append(@, rms)]
    IN  IF a.recording_timer # "None" THEN new_timer(cancel_timer(a)) ELSE a

\* process_audio on a voice frame
voice_frame(s, rms) ==
    LET a == [s EXCEPT !.sound_frames_count = @ + 1,
                       !.silent_frames_count = 0,
                       !.audio_buffer = Append(@, rms)]
    IN  IF a.recording_timer # "None" THEN new_timer(cancel_timer(a)) ELSE a

\* pause_frame that keeps the frames received before the voice
pause_frame_kept_early(s, rms) ==
    IF s.sound_frames_count >= s.MIN_SOUND_FRAMES
    THEN [s EXCEPT !.silent_frames_count = @ + 1,
                   !.audio_buffer = Append(@, rms)]
    ELSE [s EXCEPT !.audio_buffer = Append(@, rms)]

\* pause_frame that counts the frame and does not keep it
pause_frame_not_kept(s, rms) ==
    IF s.sound_frames_count >= s.MIN_SOUND_FRAMES
    THEN [s EXCEPT !.silent_frames_count = @ + 1]
    ELSE s

\* process_audio on a frame that is not voice, up to the finalization
pause_frame(s, rms) ==
    IF s.sound_frames_count >= s.MIN_SOUND_FRAMES
    THEN [s EXCEPT !.silent_frames_count = @ + 1,
                   !.audio_buffer = Append(@, rms)]
    ELSE s

\* finish_calibration taking the mean of no samples to be 0
finish_calibration_of_nothing(s) ==
    [s EXCEPT !.noise_floor = IF s.calibration_samples # <<>>
                              THEN Mean(s.calibration_samples) ELSE <<0, 1>>,
              !.is_calibrating = FALSE,
              !.calibration_samples = <<>>]

\* calibrate_noise_floor, after its wait loop
finish_calibration(s) ==
    LET n == IF s.calibration_samples # <<>>
             THEN [s EXCEPT !.noise_floor = Mean(s.calibration_samples)]
             ELSE s
    IN  [n EXCEPT !.is_calibrating = FALSE, !.calibration_samples = <<>>]

(***************************************************************************)
(* WakeWordService                                                         *)
(***************************************************************************)
WakeInit == [recognizer |-> FALSE, is_recording |-> FALSE]

wake_initialize(w) == [recognizer |-> TRUE, is_recording |-> FALSE]

wake_stop(w) == [w EXCEPT !.is_recording = FALSE]

(***************************************************************************)
(* VoiceAssistantController: handlers as functions of the program state c  *)
(***************************************************************************)
NoWorkers ==
    [ init        |-> 0,   \* _initialize_services threads running
      teardown    |-> 0,   \* of them, those that failed and still call stop()
      autocal     |-> 0,   \* Timer(2.0, calibrate_noise_floor) still to fire
      calib       |-> 0,   \* run_calibration threads started, not yet running
      calibrating |-> 0,   \* run_calibration threads in the wait loop
      transcribe  |-> 0,   \* _transcribe threads
      timeout     |-> 0,   \* _timeout_handler threads between their test of
                           \* is_recording and their _recognize_speech
      llm         |-> 0,   \* _send_to_llm.process threads
      speak       |-> 0 ]  \* _on_llm_response.speak threads

\* no event emitted yet, so no value carried
NoPayload == [event \in {} |-> 0]

\* the program state a handler starts from
Program ==
    [ state                 |-> state,
      selected_device_index |-> selected_device_index,
      wake_word             |-> wake_word,
      sensitivity           |-> sensitivity,
      speech                |-> speech,
      wake                  |-> wake,
      audio_is_recording    |-> audio_is_recording,
      history               |-> history,
      workers               |-> workers,
      emitted               |-> {},
      payload               |-> NoPayload ]

\* the program state a handler leaves, op naming the handler and its outcome
Assign(c, op) ==
    /\ state' = c.state
    /\ selected_device_index' = c.selected_device_index
    /\ wake_word' = c.wake_word
    /\ sensitivity' = c.sensitivity
    /\ speech' = c.speech
    /\ wake' = c.wake
    /\ audio_is_recording' = c.audio_is_recording
    /\ history' = c.history
    /\ workers' = c.workers
    /\ emitted' = c.emitted
    /\ payload' = c.payload
    /\ last' = op
    /\ UNCHANGED config

\* ... of a handler that is not fed by the scripted frame source
Commit(c, op) == Assign(c, op) /\ UNCHANGED script

\* the threads and timers in flight (a failed initialization thread counts
\* once, in init)
InFlight(w) ==
    w.init + w.autocal + w.calib + w.calibrating + w.transcribe + w.llm + w.speak

Bounded(c) ==
    /\ InFlight(c.workers) <= MaxWorkers
    /\ c.workers.timeout <= MaxWorkers
    /\ c.history <= 2 * MaxHistory
    /\ c.speech.sound_frames_count <= MaxSound
    /\ Len(c.speech.calibration_samples) <= MaxCalSamples

_set_state(c, new_state) == [c EXCEPT !.state = new_state]

_emit(c, event) == [c EXCEPT !.emitted = @ \cup {event}]

\* _emit(event, value)
_emit_with(c, event, value) ==
    [c EXCEPT !.emitted = @ \cup {event},
              !.payload = (event :> value) @@ @]

\* threading.Thread(...).start() and threading.Timer(...).start()
spawn(c, kind) == [c EXCEPT !.workers[kind] = @ + 1]

\* the thread or timer runs to its end
finish(c, kind) == [c EXCEPT !.workers[kind] = @ - 1]

\* start without its check of the state
start_unguarded(c, device_index, wake_word_arg) ==
    LET a == [_set_state(c, "initializing") EXCEPT
                 !.selected_device_index = device_index,
                 !.wake_word = IF wake_word_arg # "" THEN wake_word_arg ELSE @]
    IN  spawn(a, "init")

start(c, device_index, wake_word_arg) ==
    IF c.state # "stopped" THEN c
    ELSE LET a == [_set_state(c, "initializing") EXCEPT
                      !.selected_device_index = device_index,
                      !.wake_word = IF wake_word_arg # "" THEN wake_word_arg ELSE @]
         IN  spawn(a, "init")

stop(c) ==
    _set_state([c EXCEPT !.audio_is_recording = FALSE,
                         !.speech = speech_stop(@),
                         !.wake = wake_stop(@)],
               "stopped")

\* _initialize_services up to the step that raises ("none": no step raises)
initialize_upto(c, failing) ==
    LET a1 == [c EXCEPT !.wake = wake_initialize(@)]
        a2 == [a1 EXCEPT !.speech =
                  update_sensitivity(speech_initialize(@), c.sensitivity)]
        a3 == [a2 EXCEPT !.audio_is_recording = TRUE]
    IN  CASE failing = "wake_word" -> c
          [] failing = "speech"    -> a1
          [] failing = "tts"       -> a2
          [] failing = "audio"     -> a2
          [] OTHER                 -> a3

_initialize_services_ok(c) ==
    spawn(_set_state(initialize_upto(c, "none"), "listening_wake_word"), "autocal")

\* the except branch, before its call of stop()
_initialize_services_failed(c, failing) ==
    _emit(_set_state(initialize_upto(c, failing), "error"), "on_error")

\* calibrate_noise_floor also accepted while a command is recorded
calibrate_noise_floor_while_recording(c) ==
    IF c.state \notin {"listening_wake_word", "recording_command"}
    THEN c ELSE spawn(c, "calib")

calibrate_noise_floor(c) ==
    IF c.state # "listening_wake_word" THEN c ELSE spawn(c, "calib")

\* _on_wake_word_detected starting a capture that keeps the old counters
_on_wake_word_detected_keeps_counters(c) ==
    LET a == _emit(_set_state(c, "recording_command"), "on_wake_word_detected")
    IN  [a EXCEPT !.speech =
            new_timer(cancel_timer([@ EXCEPT !.is_recording = TRUE,
                                             !.audio_buffer = <<>>]))]

\* VoiceAssistantController._on_wake_word_detected
_on_wake_word_detected(c) ==
    LET a == _emit(_set_state(c, "recording_command"), "on_wake_word_detected")
    IN  [a EXCEPT !.speech = start_recording(@)]

_send_to_llm(c) == spawn(_set_state(c, "processing_llm"), "llm")

_on_speech_recognized(c, text) ==
    LET a == IF text \notin {SilenceText, ErrorText}
             THEN _send_to_llm(_emit(c, "on_speech_recognized"))
             ELSE c
    IN  [_set_state(a, "listening_wake_word") EXCEPT !.wake = wake_stop(@)]

\* get_history_length counting messages, not pairs
get_history_length_in_messages(c) == c.history

\* GeminiService.get_history_length: the question/answer pairs
get_history_length(c) == c.history \div 2

\* _on_llm_response without its test of the option tts.enabled
_on_llm_response_always_speaks(c) ==
    LET a == _emit_with(_emit(c, "on_llm_response"),
                        "on_history_updated", get_history_length(c))
    IN  spawn(_set_state(a, "speaking"), "speak")

_on_llm_response(c) ==
    LET a == _emit_with(_emit(c, "on_llm_response"),
                        "on_history_updated", get_history_length(c))
    IN  IF config.tts_enabled
        THEN spawn(_set_state(a, "speaking"), "speak")
        ELSE _set_state(a, "listening_wake_word")

_on_llm_error(c) ==
    _set_state(_emit(c, "on_llm_error"), "listening_wake_word")

\* speak whose except branch does not return to the wake word
speak_finished_swallows_failure(c, ok) ==
    IF ok THEN _set_state(c, "listening_wake_word") ELSE c

\* _on_llm_response.speak after tts_service.speak returned (ok) or raised
speak_finished(c, ok) ==
    IF ok THEN _set_state(c, "listening_wake_word")
    ELSE _set_state(c, "listening_wake_word")

_on_noise_floor_calibrated(c) ==
    _emit_with(_emit_with(c, "on_noise_floor_calibrated", c.speech.noise_floor),
               "on_threshold_updated", get_voice_threshold(c.speech))

\* update_sensitivity that begins the capture anew
update_sensitivity_restarts_capture(c, level) ==
    LET a == [c EXCEPT !.sensitivity = level,
                       !.speech = update_sensitivity(
                           [@ EXCEPT !.audio_buffer = <<>>,
                                     !.sound_frames_count = 0,
                                     !.silent_frames_count = 0], level)]
    IN  _emit_with(a, "on_threshold_updated", get_voice_threshold(a.speech))

\* VoiceAssistantController.update_sensitivity
VoiceAssistantController_update_sensitivity(c, level) ==
    LET a == [c EXCEPT !.sensitivity = level,
                       !.speech = update_sensitivity(@, level)]
    IN  _emit_with(a, "on_threshold_updated", get_voice_threshold(a.speech))

(***************************************************************************)
(* The services' methods that call back into the controller                *)
(***************************************************************************)
\* SpeechRecognitionService._recognize_speech with its callback
_recognize_speech(c) ==
    LET a == [c EXCEPT !.speech = recognize_speech(@)]
    IN  IF too_short(c.speech)
        THEN _on_speech_recognized(a, SilenceText)
        ELSE spawn(a, "transcribe")

\* VoiceAssistantController._on_audio_level_speech
_on_audio_level_speech(c, rms, label) ==
    IF c.state = "recording_command"
    THEN _emit_with(c, "on_audio_level", <<rms, label>>)
    ELSE c

\* process_audio that finalizes one pause frame late
process_audio_stops_late(c, rms) ==
    IF c.speech.is_calibrating
    THEN LET a == [c EXCEPT !.speech = collect_sample(@, rms)]
         IN  _on_audio_level_speech(a, rms,
                 "Calibration " \o ToString(Len(a.speech.calibration_samples)))
    ELSE IF ~c.speech.is_recording THEN c
    ELSE LET b == _on_audio_level_speech(c, rms, status(c.speech, rms))
         IN  IF is_voice(c.speech, rms)
             THEN [b EXCEPT !.speech = voice_frame(@, rms)]
             ELSE LET a == [b EXCEPT !.speech = pause_frame(@, rms)]
                  IN  IF /\ c.speech.sound_frames_count
                                >= c.speech.MIN_SOUND_FRAMES
                         /\ a.speech.silent_frames_count
                                > c.speech.SILENT_FRAMES_TO_STOP
                      THEN _recognize_speech(a)
                      ELSE a

\* SpeechRecognitionService.process_audio
process_audio(c, rms) ==
    IF c.speech.is_calibrating
    THEN LET a == [c EXCEPT !.speech = collect_sample(@, rms)]
         IN  _on_audio_level_speech(a, rms,
                 "Calibration " \o ToString(Len(a.speech.calibration_samples)))
    ELSE IF ~c.speech.is_recording THEN c
    ELSE LET b == _on_audio_level_speech(c, rms, status(c.speech, rms))
         IN  IF is_voice(c.speech, rms)
             THEN [b EXCEPT !.speech = voice_frame(@, rms)]
             ELSE LET a == [b EXCEPT !.speech = pause_frame(@, rms)]
                  IN  IF /\ c.speech.sound_frames_count
                                >= c.speech.MIN_SOUND_FRAMES
                         /\ a.speech.silent_frames_count
                                >= c.speech.SILENT_FRAMES_TO_STOP
                      THEN _recognize_speech(a)
                      ELSE a

\* _timeout_handler that finalizes only a capture with voice in it
_timeout_handler_needs_voice(c) ==
    IF c.speech.is_recording /\ c.speech.sound_frames_count > 0
    THEN _recognize_speech(c) ELSE c

\* SpeechRecognitionService._timeout_handler
_timeout_handler(c) ==
    IF c.speech.is_recording THEN _recognize_speech(c) ELSE c

\* SpeechRecognitionService._timeout_handler, its test of is_recording alone:
\* the Timer thread is not synchronized with the frame thread, which may run
\* between the test and the call that follows it
_timeout_handler_test(c) ==
    IF c.speech.is_recording THEN spawn(c, "timeout") ELSE c

\* ... and the call of _recognize_speech that follows the test
_timeout_handler_call(c) == _recognize_speech(finish(c, "timeout"))

\* SpeechRecognitionService.calibrate_noise_floor up to its wait loop, in
\* the run_calibration thread
calibration_begins(c) ==
    [spawn(finish(c, "calib"), "calibrating") EXCEPT
        !.speech.is_calibrating = TRUE,
        !.speech.calibration_samples = <<>>]

\* SpeechRecognitionService.calibrate_noise_floor after its wait loop
calibration_finished(c) ==
    LET a == [c EXCEPT !.speech = finish_calibration(@)]
    IN  IF c.speech.calibration_samples # <<>>
        THEN _on_noise_floor_calibrated(a)
        ELSE a

\* WakeWordService.process_audio and _check_wake_word
wake_process_audio(c, detected) ==
    IF ~c.wake.recognizer \/ c.wake.is_recording THEN c
    ELSE IF detected
    THEN _on_wake_word_detected([c EXCEPT !.wake.is_recording = TRUE])
    ELSE c

\* _on_audio_data: the service whose process_audio receives the frame
recipient(c) ==
    IF c.speech.is_calibrating THEN "endpointer"
    ELSE IF c.state = "listening_wake_word" THEN "spotter"
    ELSE IF c.state = "recording_command" THEN "endpointer"
    ELSE "none"

_on_audio_data(c, rms, detected) ==
    CASE recipient(c) = "endpointer" -> process_audio(c, rms)
      [] recipient(c) = "spotter"    -> wake_process_audio(c, detected)
      [] OTHER                       -> c

(***************************************************************************)
(* The state machine                                                       *)
(***************************************************************************)
\* VoiceAssistantController.__init__ under the options cfg
Constructed(cfg) ==
    [ state                 |-> "stopped",
      selected_device_index |-> "None",
      wake_word             |-> DefaultWakeWord,
      sensitivity           |-> cfg.sensitivity,
      speech                |-> SpeechInit(cfg),
      wake                  |-> WakeInit,
      audio_is_recording    |-> FALSE,
      history               |-> 0,
      workers               |-> NoWorkers,
      emitted               |-> {},
      payload               |-> NoPayload ]

\* the program is in the state c, which the handler op left
Holds(c, op) ==
    /\ state = c.state
    /\ selected_device_index = c.selected_device_index
    /\ wake_word = c.wake_word
    /\ sensitivity = c.sensitivity
    /\ speech = c.speech
    /\ wake = c.wake
    /\ audio_is_recording = c.audio_is_recording
    /\ history = c.history
    /\ workers = c.workers
    /\ emitted = c.emitted
    /\ payload = c.payload
    /\ last = op

\* the frame source is not scripted: any frame may come
NoScript == [kind |-> "free", frames |-> <<>>, pos |-> 0]

Init ==
    /\ config \in {ShortConfig(tts) : tts \in BOOLEAN}
    /\ Holds(Constructed(config), "constructed")
    /\ script = NoScript

\* the client calls start(device_index, wake_word)
Start(device_index, wake_word_arg) ==
    LET c == start(Program, device_index, wake_word_arg) IN
    /\ Bounded(c)
    /\ Commit(c, IF state = "stopped" THEN "start_ok" ELSE "start_rejected")

\* the client calls stop()
Stop ==
    LET c == stop(Program) IN
    /\ Bounded(c)
    /\ Commit(c, "stop")

\* the client calls calibrate_noise_floor()
Calibrate ==
    LET c == calibrate_noise_floor(Program) IN
    /\ Bounded(c)
    /\ Commit(c, IF c.workers.calib > workers.calib
                 THEN "calibrate_started" ELSE "calibrate_rejected")

\* the client calls update_sensitivity(level)
UpdateSensitivity(level) ==
    LET c == VoiceAssistantController_update_sensitivity(Program, level) IN
    /\ Bounded(c)
    /\ Commit(c, "sensitivity_updated")

\* the Timer(2.0, calibrate_noise_floor) of _initialize_services fires
AutoCalibrate ==
    /\ workers.autocal > 0
    /\ LET c == calibrate_noise_floor(finish(Program, "autocal")) IN
       /\ Bounded(c)
       /\ Commit(c, IF c.workers.calib > workers.calib
                    THEN "auto_calibrate_started" ELSE "auto_calibrate_rejected")

\* the _initialize_services thread runs to its end without an exception
InitOk ==
    /\ workers.init > workers.teardown
    /\ LET c == _initialize_services_ok(finish(Program, "init")) IN
       /\ Bounded(c)
       /\ Commit(c, "init_ok")

\* a step of _initialize_services raises: the except branch up to stop()
InitFail(failing) ==
    /\ workers.init > workers.teardown
    /\ failing = "wake_word" => ~wake.recognizer
    /\ failing = "speech" => ~speech.model
    /\ failing = "tts" => config.tts_enabled
    /\ failing = "audio" => ~audio_is_recording
    /\ LET c == spawn(_initialize_services_failed(Program, failing), "teardown") IN
       /\ Bounded(c)
       /\ Commit(c, "init_failed")

\* the except branch of _initialize_services calls stop()
InitTeardown ==
    /\ workers.teardown > 0
    /\ Commit(stop(finish(finish(Program, "teardown"), "init")), "init_teardown")

\* the run_calibration thread enters calibrate_noise_floor
CalibrationBegin ==
    /\ workers.calib > 0
    /\ LET c == calibration_begins(Program) IN
       /\ Bounded(c)
       /\ Commit(c, "calibration_begin")

\* the wait loop of calibrate_noise_floor ends: enough samples, or timed out
CalibrationEnd(timed_out) ==
    /\ workers.calibrating > 0
    /\ Len(speech.calibration_samples) >= expected_samples(speech) \/ timed_out
    /\ Commit(calibration_finished(finish(Program, "calibrating")),
              IF speech.calibration_samples # <<>>
              THEN "calibration_done" ELSE "calibration_failed")

\* the frame source delivers a frame that _on_audio_data hands to the spotter
FrameToSpotter(detected) ==
    /\ audio_is_recording
    /\ recipient(Program) = "spotter"
    /\ LET c == _on_audio_data(Program, 0, detected) IN
       /\ Bounded(c)
       /\ Commit(c, IF c.state # state THEN "wake_word_detected"
                    ELSE IF wake.is_recording THEN "frame_dropped_by_spotter"
                    ELSE "frame_to_spotter")

\* ... that _on_audio_data hands to the endpointer
FrameToEndpointer(rms) ==
    /\ audio_is_recording
    /\ recipient(Program) = "endpointer"
    /\ LET c == _on_audio_data(Program, rms, FALSE) IN
       /\ Bounded(c)
       /\ Commit(c, "frame_to_endpointer")

\* ... that _on_audio_data hands to no service
FrameToNone ==
    /\ audio_is_recording
    /\ recipient(Program) = "none"
    /\ Commit(_on_audio_data(Program, 0, FALSE), "frame_to_none")

\* the capture Timer fires
Timeout ==
    /\ speech.recording_timer = "armed"
    /\ LET fired == [Program EXCEPT !.speech.recording_timer = "spent",
                                    !.speech.timer_started_at = 0,
                                    !.speech.timers = @ - 1]
           c == _timeout_handler(fired) IN
       /\ Bounded(c)
       /\ Commit(c, "timeout")

\* the capture Timer fires and _timeout_handler tests is_recording, the frame
\* thread being free to run before the handler goes on
TimeoutTest ==
    /\ speech.recording_timer = "armed"
    /\ LET fired == [Program EXCEPT !.speech.recording_timer = "spent",
                                    !.speech.timer_started_at = 0,
                                    !.speech.timers = @ - 1]
           c == _timeout_handler_test(fired) IN
       /\ Bounded(c)
       /\ Commit(c, "timeout_test")

\* the handler goes on to _recognize_speech
TimeoutCall ==
    /\ workers.timeout > 0
    /\ LET c == _timeout_handler_call(Program) IN
       /\ Bounded(c)
       /\ Commit(c, "timeout")

\* a _transcribe thread reports its result
TranscribeDone(text) ==
    /\ workers.transcribe > 0
    /\ LET c == _on_speech_recognized(finish(Program, "transcribe"), text) IN
       /\ Bounded(c)
       /\ Commit(c, IF text = ErrorText THEN "speech_failed"
                    ELSE IF text = SilenceText THEN "speech_empty"
                    ELSE "speech_text")

\* send_query got an answer: two messages join the history
LlmResponse ==
    /\ workers.llm > 0
    /\ LET c == _on_llm_response(
                   [finish(Program, "llm") EXCEPT !.history = @ + 2]) IN
       /\ Bounded(c)
       /\ Commit(c, "llm_response")

\* send_query failed
LlmError ==
    /\ workers.llm > 0
    /\ Commit(_on_llm_error(finish(Program, "llm")), "llm_error")

\* tts_service.speak returned (ok) or raised
SpeakDone(ok) ==
    /\ workers.speak > 0
    /\ Commit(speak_finished(finish(Program, "speak"), ok),
              IF ok THEN "speak_done" ELSE "speak_failed")

Next ==
    \/ \E d \in Devices, w \in WakeArgs : Start(d, w)
    \/ Stop
    \/ Calibrate
    \/ \E level \in Levels : UpdateSensitivity(level)
    \/ AutoCalibrate
    \/ InitOk
    \/ \E failing \in InitSteps : InitFail(failing)
    \/ InitTeardown
    \/ CalibrationBegin
    \/ \E timed_out \in BOOLEAN : CalibrationEnd(timed_out)
    \/ \E detected \in BOOLEAN : FrameToSpotter(detected)
    \/ \E rms \in Loudness : FrameToEndpointer(rms)
    \/ FrameToNone
    \/ Timeout
    \/ \E text \in Texts : TranscribeDone(text)
    \/ LlmResponse
    \/ LlmError
    \/ \E ok \in BOOLEAN : SpeakDone(ok)

Spec == Init /\ [][Next]_vars

(***************************************************************************)
(* The program fed by a scripted frame source: a capture under the default *)
(* options, a calibration under the short ones                             *)
(***************************************************************************)
\* the next handler starts with nothing emitted
After(c) == [c EXCEPT !.emitted = {}, !.payload = NoPayload]

\* start() and a successful _initialize_services
Listening(cfg) ==
    _initialize_services_ok(
        finish(start(Constructed(cfg), CHOOSE d \in Devices : TRUE, ""), "init"))

\* ... then a frame in which the spotter detects the wake word
Capturing(cfg) == wake_process_audio(After(Listening(cfg)), TRUE)

\* ... or the auto-calibration Timer fires and its thread begins to calibrate
Calibrating(cfg) ==
    calibration_begins(
        calibrate_noise_floor(finish(After(Listening(cfg)), "autocal")))

Low == 10
Voice == 500
Mute == 0

Repeat(x, n) == [i \in 1..n |-> x]

\* quiet frames, then voice frames, then quiet frames
CaptureScripts ==
    { Repeat(Low, a) \o Repeat(Voice, b) \o Repeat(Low, c) :
        a \in 0..MaxLead, b \in 0..MaxVoice, c \in 0..MaxTrail }

\* any frames, those of a muted microphone included
CalibrationScripts ==
    UNION { [1..n -> {Mute, Low, Voice}] : n \in 0..MaxSamples }

ScriptInit ==
    \/ /\ config = DefaultConfig(TRUE)
       /\ Holds(Capturing(config), "wake_word_detected")
       /\ \E frames \in CaptureScripts :
             script = [kind |-> "capture", frames |-> frames, pos |-> 0]
    \/ /\ config = ShortConfig(TRUE)
       /\ Holds(Calibrating(config), "calibration_begin")
       /\ \E frames \in CalibrationScripts :
             script = [kind |-> "calibration", frames |-> frames, pos |-> 0]

\* the scripted frame source delivers its next frame to _on_audio_data
ScriptFrame ==
    /\ script.pos < Len(script.frames)
    /\ audio_is_recording
    /\ Assign(_on_audio_data(Program, script.frames[script.pos + 1], FALSE),
              "frame_to_" \o recipient(Program))
    /\ script' = [script EXCEPT !.pos = @ + 1]

ScriptNext ==
    \/ ScriptFrame
    \/ \E timed_out \in BOOLEAN : CalibrationEnd(timed_out)

ScriptSpec == ScriptInit /\ [][ScriptNext]_vars

(***************************************************************************)
(* The initialized program under update_sensitivity with any level, in and *)
(* beyond the scale, while frames arrive                                   *)
(***************************************************************************)
SensitivityScale == MinSensitivity..MaxSensitivity

SweepLevels == (MinSensitivity - Margin)..(MaxSensitivity + Margin)

SweepInit ==
    /\ config = ShortConfig(FALSE)
    /\ Holds(After(Listening(config)), "init_ok")
    /\ script = NoScript

SweepNext ==
    \/ \E level \in SweepLevels : UpdateSensitivity(level)
    \/ \E detected \in BOOLEAN : FrameToSpotter(detected)
    \/ \E rms \in Loudness : FrameToEndpointer(rms)

SweepSpec == SweepInit /\ [][SweepNext]_vars

(***************************************************************************)
(* The initialized program receiving frames of four loudnesses, below      *)
(* the noise floor, at it, at the default threshold and far above it, with *)
(* the sensitivity moved between its default and the top of its scale      *)
(* (thresholds 0.018 and 0.005) and the capture Timer running.  The wake   *)
(* word has just been detected for the first time and the auto-calibration *)
(* Timer has fired during the capture, to no effect.  One voice frame is   *)
(* enough for a phrase, so that voice may follow a pause.                  *)
(***************************************************************************)
CaptureConfig == [ShortConfig(FALSE) EXCEPT !.min_sound_frames = 1]

CaptureLevels == {DefaultSensitivity, MaxSensitivity}

Hush == 5

Edge == 18

CaptureLoudness == {Hush, Low, Edge, Voice}

CaptureInit ==
    /\ config = CaptureConfig
    /\ Holds(After(calibrate_noise_floor(finish(Capturing(config), "autocal"))),
             "auto_calibrate_rejected")
    /\ script = NoScript

CaptureNext ==
    \/ \E level \in CaptureLevels : UpdateSensitivity(level)
    \/ \E detected \in BOOLEAN : FrameToSpotter(detected)
    \/ \E rms \in CaptureLoudness : FrameToEndpointer(rms)
    \/ Timeout
    \/ \E text \in Texts : TranscribeDone(text)
    \/ LlmResponse
    \/ LlmError

CaptureSpec == CaptureInit /\ [][CaptureNext]_vars

\* ... where a Timer that is not cancelled fires in the end
CaptureLiveSpec == CaptureSpec /\ WF_vars(Timeout)

\* a program whose settings enable speech synthesis (no other one ever enters
\* SPEAKING), and whose synthesis thread always runs to its end
LiveInit == Init /\ config.tts_enabled

LiveSpec ==
    LiveInit /\ [][Next]_vars /\ WF_vars(\E ok \in BOOLEAN : SpeakDone(ok))

(***************************************************************************)
(* The program with the threading.Timer thread of the capture interleaved  *)
(* with the other threads: between its test of is_recording and its call   *)
(* of _recognize_speech any other handler may run.                         *)
(***************************************************************************)
ThreadNext ==
    \/ \E d \in Devices, w \in WakeArgs : Start(d, w)
    \/ Stop
    \/ Calibrate
    \/ \E level \in Levels : UpdateSensitivity(level)
    \/ AutoCalibrate
    \/ InitOk
    \/ \E failing \in InitSteps : InitFail(failing)
    \/ InitTeardown
    \/ CalibrationBegin
    \/ \E timed_out \in BOOLEAN : CalibrationEnd(timed_out)
    \/ \E detected \in BOOLEAN : FrameToSpotter(detected)
    \/ \E rms \in Loudness : FrameToEndpointer(rms)
    \/ FrameToNone
    \/ TimeoutTest
    \/ TimeoutCall
    \/ \E text \in Texts : TranscribeDone(text)
    \/ LlmResponse
    \/ LlmError
    \/ \E ok \in BOOLEAN : SpeakDone(ok)

ThreadSpec == Init /\ [][ThreadNext]_vars

(***************************************************************************)
(* Properties                                                              *)
(***************************************************************************)
StopOps == {"stop", "init_teardown"}
CalibrateOps == {"calibrate_started", "calibrate_rejected",
                 "auto_calibrate_started", "auto_calibrate_rejected"}
CalibrateRejected == {"calibrate_rejected", "auto_calibrate_rejected"}
LateResultOps == {"speech_text", "speech_empty", "speech_failed",
                  "llm_response", "llm_error", "speak_done", "speak_failed"}
SpotterOps == {"frame_to_spotter", "frame_dropped_by_spotter", "wake_word_detected"}
FrameOps == SpotterOps \cup {"frame_to_endpointer", "frame_to_none"}

\* what stop() leaves behind
Reset ==
    /\ state = "stopped"
    /\ ~speech.is_recording
    /\ ~speech.is_calibrating
    /\ speech.audio_buffer = <<>>
    /\ speech.calibration_samples = <<>>
    /\ speech.sound_frames_count = 0
    /\ speech.silent_frames_count = 0
    /\ speech.recording_timer = "None"
    /\ speech.timers = 0

\* C1: whenever stop() has just returned, the state is STOPPED, the endpointer
\* neither records nor calibrates, its buffer and calibration samples are
\* empty, both counters are 0 and no capture Timer is pending; a second stop()
\* right after it changes none of the program's fields.
C1_StopResets ==
    /\ [](last \in StopOps => Reset)
    /\ [][(last = "stop" /\ last' = "stop") =>
            UNCHANGED <<state, speech, wake, audio_is_recording, workers>>]_vars

\* C1 witness: stop() returned while a capture was transcribed, all reset
C1_Witness == last = "stop" /\ workers.transcribe > 0 /\ Reset

\* C2: while the state is STOPPED, a transcription result, a model response,
\* a model error or the end of a synthesis leaves the state STOPPED and
\* starts neither a model query nor a playback.
C2_LateResultsDiscarded ==
    [][(state = "stopped" /\ last' \in LateResultOps) =>
          /\ state' = "stopped"
          /\ workers'.llm <= workers.llm
          /\ workers'.speak <= workers.speak]_vars

\* C3: start() in a state other than STOPPED is rejected and changes neither
\* the state, the device, the wake word nor the threads; in STOPPED it moves
\* to INITIALIZING and starts exactly one initialization thread.
C3_StartGuard ==
    [][/\ last' = "start_rejected" =>
            /\ state # "stopped"
            /\ UNCHANGED <<state, selected_device_index, wake_word, workers>>
       /\ last' = "start_ok" =>
            /\ state = "stopped"
            /\ state' = "initializing"
            /\ workers'.init = workers.init + 1
            /\ InFlight(workers') = InFlight(workers) + 1]_vars

\* C3 witness: a start() with another wake word was rejected while the
\* initialization was running
C3_Witness ==
    /\ last = "start_rejected"
    /\ state = "initializing"
    /\ workers.init = 1
    /\ wake_word = DefaultWakeWord

\* C4: once the state is ERROR, only a stop() of the client changes it.
C4_FaultedUntilStop ==
    [][(state = "error" /\ state' # "error") => last' = "stop"]_vars

\* C5: after a transcription result with text has been handled the state is
\* PROCESSING_LLM, and it stays so while the model query is in flight; after
\* an empty or failed one the state is LISTENING_WAKE_WORD and no model query
\* was started.
C5_TextAwaitsModel ==
    /\ last = "speech_text" => state = "processing_llm"
    /\ last \in {"speech_empty", "speech_failed"}
           => state = "listening_wake_word"

\* C6: the service a frame is handed to depends on the state alone: the
\* spotter in LISTENING_WAKE_WORD, the endpointer in RECORDING_COMMAND, none
\* in any other state.
C6_RoutingByState ==
    [][last' \in FrameOps =>
          /\ last' \in SpotterOps <=> state = "listening_wake_word"
          /\ last' = "frame_to_endpointer" <=> state = "recording_command"]_vars

\* C7: right after a wake word detection the state is RECORDING_COMMAND, the
\* endpointer records with an empty buffer and both counters 0, exactly one
\* capture Timer is pending and on_wake_word_detected was emitted.
C7_DetectionBeginsCapture ==
    last = "wake_word_detected" =>
        /\ state = "recording_command"
        /\ wake.is_recording
        /\ speech.is_recording
        /\ speech.audio_buffer = <<>>
        /\ speech.sound_frames_count = 0
        /\ speech.silent_frames_count = 0
        /\ speech.recording_timer = "armed"
        /\ speech.timers = 1
        /\ "on_wake_word_detected" \in emitted

\* C7 witness: a detection after an earlier command was answered
C7_Witness == last = "wake_word_detected" /\ history > 0

\* C8: a model response leaves the state SPEAKING when tts.enabled and
\* LISTENING_WAKE_WORD otherwise, with on_llm_response emitted; a model error
\* leaves LISTENING_WAKE_WORD with on_llm_error emitted.
C8_ModelCompletion ==
    /\ last = "llm_response" =>
          /\ state = IF config.tts_enabled THEN "speaking" ELSE "listening_wake_word"
          /\ "on_llm_response" \in emitted
    /\ last = "llm_error" =>
          /\ state = "listening_wake_word"
          /\ "on_llm_error" \in emitted

\* C8 witness: a model response with speech synthesis switched off
C8_Witness == last = "llm_response" /\ ~config.tts_enabled

\* C9: from SPEAKING the controller reaches LISTENING_WAKE_WORD, unless it is
\* stopped first, given that the synthesis thread runs to its end.
C9_SpeakingEnds ==
    (state = "speaking") ~> (state \in {"listening_wake_word", "stopped"})

\* C9 witness: the synthesis failed and the wake word is armed again
C9_Witness == last = "speak_failed" /\ state = "listening_wake_word"

\* C10: calibrate_noise_floor in a state other than LISTENING_WAKE_WORD is
\* rejected: no calibration thread is started and the endpointer (noise
\* floor, buffer, counters, calibration samples) is unchanged.
C10_CalibrationGuard ==
    [][(last' \in CalibrateOps /\ state # "listening_wake_word") =>
          /\ last' \in CalibrateRejected
          /\ speech' = speech
          /\ workers'.calib = workers.calib
          /\ workers'.calibrating = workers.calibrating]_vars

\* C10 witness: a calibration asked for, and rejected, during a capture
C10_Witness ==
    /\ last = "calibrate_rejected"
    /\ state = "recording_command"
    /\ speech.is_recording
    /\ speech.audio_buffer # <<>>

\* C11: in no reachable state is the endpointer calibrating while it records
\* a command or while the state is RECORDING_COMMAND.
C11_CalibrationExcludesCapture ==
    ~(speech.is_calibrating /\ (speech.is_recording \/ state = "recording_command"))

\* C12: in every reachable state the voice threshold, noise_floor times
\* sensitivity_multiplier, is strictly positive.
C12_ThresholdPositive == get_voice_threshold(speech)[1] > 0

\* C13: an update_sensitivity from a level of the scale 1..10 to a level of
\* the scale leaves a multiplier that is at least the floor 0.5 and, when the
\* level did not decrease, at most the multiplier of the level before.
C13_MultiplierMonotone ==
    [][(/\ last' = "sensitivity_updated"
        /\ speech.sensitivity \in SensitivityScale
        /\ speech'.sensitivity \in SensitivityScale) =>
          /\ speech'.sensitivity_multiplier >= MultiplierFloor
          /\ speech'.sensitivity >= speech.sensitivity =>
                speech'.sensitivity_multiplier <= speech.sensitivity_multiplier
          /\ speech'.sensitivity <= speech.sensitivity =>
                speech'.sensitivity_multiplier >= speech.sensitivity_multiplier]_vars

\* C13 witness: the most sensitive level, where the floor decides
C13_Witness ==
    /\ last = "sensitivity_updated"
    /\ speech.sensitivity = MaxSensitivity
    /\ speech.sensitivity_multiplier = MultiplierFloor

\* C14: after update_sensitivity(level), for any integer level, the level
\* stored by the controller and by the endpointer lies in 1..10 and the
\* multiplier is the one of a level in 1..10.
C14_LevelClamped ==
    last = "sensitivity_updated" =>
        /\ sensitivity \in SensitivityScale
        /\ speech.sensitivity \in SensitivityScale
        /\ \E level \in SensitivityScale :
              speech.sensitivity_multiplier =
                  update_sensitivity(speech, level).sensitivity_multiplier

\* C15: update_sensitivity is accepted in every state; it changes the level
\* and the multiplier and nothing else of the endpointer or the controller
\* (state, buffer, both counters, noise floor, capture Timer, threads), and
\* emits on_threshold_updated carrying the new threshold; a frame counted as
\* voice is louder than the threshold in force when it arrives, a frame
\* buffered as pause is not.
C15_SensitivityTakesEffect ==
    [][/\ last' = "sensitivity_updated" =>
            /\ \A f \in DOMAIN speech \ {"sensitivity", "sensitivity_multiplier"} :
                  speech'[f] = speech[f]
            /\ speech'.sensitivity = sensitivity'
            /\ speech'.sensitivity_multiplier =
                  Max((MaxSensitivity + 1 - sensitivity') * MultiplierStep,
                      MultiplierFloor)
            /\ UNCHANGED <<state, wake, audio_is_recording, history, workers>>
            /\ emitted' = {"on_threshold_updated"}
            /\ payload'["on_threshold_updated"] = get_voice_threshold(speech')
       /\ (/\ last' = "frame_to_endpointer"
           /\ Len(speech'.audio_buffer) = Len(speech.audio_buffer) + 1) =>
            LET threshold == get_voice_threshold(speech)
                rms == speech'.audio_buffer[Len(speech'.audio_buffer)]
            IN  /\ speech'.sound_frames_count > speech.sound_frames_count =>
                      rms * threshold[2] > threshold[1]
                /\ speech'.silent_frames_count > speech.silent_frames_count =>
                      rms * threshold[2] <= threshold[1]]_vars

\* C15 witness: the level was raised during a capture, and a frame that was
\* below the threshold before has been counted as voice
C15_Witness ==
    /\ last = "frame_to_endpointer"
    /\ state = "recording_command"
    /\ speech.sensitivity = MaxSensitivity
    /\ speech.noise_floor = <<DefaultNoiseFloor, 1>>
    /\ speech.sound_frames_count = 2
    /\ speech.audio_buffer = <<Voice, Low>>

\* C20: an update_sensitivity(L) right after an update_sensitivity(L) with
\* the same L leaves the multiplier and the voice threshold as the first call
\* left them, and reports the same threshold.
C20_SensitivityIdempotent ==
    [][(/\ last = "sensitivity_updated"
        /\ last' = "sensitivity_updated"
        /\ sensitivity' = sensitivity) =>
          /\ speech'.sensitivity_multiplier = speech.sensitivity_multiplier
          /\ get_voice_threshold(speech') = get_voice_threshold(speech)
          /\ payload'["on_threshold_updated"] = payload["on_threshold_updated"]]_vars

\* C20 witness: update_sensitivity(5) during a capture, after the
\* update_sensitivity(5) of the initialization: the multiplier is still 1.8
C20_Witness ==
    /\ last = "sensitivity_updated"
    /\ speech.is_recording
    /\ speech.sensitivity = DefaultSensitivity
    /\ speech.sensitivity_multiplier =
          (MaxSensitivity + 1 - DefaultSensitivity) * MultiplierStep

\* the quiet frames a capture script begins with, and its voice frames
RECURSIVE LeadLen(_)
LeadLen(frames) ==
    IF frames = <<>> \/ Head(frames) # Low THEN 0 ELSE 1 + LeadLen(Tail(frames))

VoiceLen(frames) == Cardinality({i \in DOMAIN frames : frames[i] = Voice})

\* the frame on which a capture script is finalized, if it has that many
FinalFrame(frames) ==
    LeadLen(frames) + VoiceLen(frames) + speech.SILENT_FRAMES_TO_STOP

\* what a scripted capture has done after script.pos frames
ScriptedCaptureState ==
    LET a == LeadLen(script.frames)
        b == VoiceLen(script.frames)
        p == script.pos
        final == FinalFrame(script.frames)
        opens == b >= speech.MIN_SOUND_FRAMES
    IN  script.kind = "capture" =>
          /\ p <= a =>
                /\ speech.is_recording
                /\ speech.audio_buffer = <<>>
                /\ speech.sound_frames_count = 0
          /\ (a <= p /\ p <= a + b) =>
                /\ speech.is_recording
                /\ speech.audio_buffer = Repeat(Voice, p - a)
          /\ (opens /\ a + b <= p /\ p < final) =>
                /\ speech.is_recording
                /\ speech.audio_buffer = Repeat(Voice, b) \o Repeat(Low, p - a - b)
                /\ workers.transcribe = 0
          /\ (~opens /\ a + b <= p) =>
                /\ speech.is_recording
                /\ speech.audio_buffer = Repeat(Voice, b)
          /\ (opens /\ p >= final) =>
                /\ ~speech.is_recording
                /\ speech.audio_buffer = <<>>
                /\ workers.transcribe = 1

\* what one frame of a scripted capture does at and after the finalization
ScriptedCaptureStep ==
    LET b == VoiceLen(script.frames)
        final == FinalFrame(script.frames)
    IN  script.kind = "capture" =>
          /\ workers'.transcribe > workers.transcribe =>
                /\ script'.pos = final
                /\ Len(speech.audio_buffer) + 1 = b + speech.SILENT_FRAMES_TO_STOP
          /\ (b >= speech.MIN_SOUND_FRAMES /\ script.pos >= final) =>
                /\ speech' = speech
                /\ workers' = workers

\* C16: a capture fed a quiet frames, b voice frames and then quiet frames
\* (MIN_SOUND_FRAMES = 3, SILENT_FRAMES_TO_STOP = 15; the claim has a = 5,
\* b = 4 and 20 trailing frames) buffers nothing during the first a frames,
\* buffers every voice frame from frame a + 1 on and, when b >= 3, every
\* trailing frame up to the 15th, is finalized exactly on frame a + b + 15 by
\* handing over a buffer of b + 15 frames to one transcription thread, and
\* ignores the frames after that one.
C16_ScriptedCapture ==
    [](ScriptedCaptureState) /\ [][ScriptedCaptureStep]_vars

\* C16 witness: the script of the claim, finalized on its frame 24 after 18
\* buffered frames and this one, with 5 frames still to come
C16_Witness ==
    /\ script.kind = "capture"
    /\ script.frames = Repeat(Low, 5) \o Repeat(Voice, 4) \o Repeat(Low, 20)
    /\ script.pos = 24
    /\ speech.MIN_SOUND_FRAMES = DefaultMinSoundFrames
    /\ speech.SILENT_FRAMES_TO_STOP = DefaultSilentFramesToStop
    /\ ~speech.is_recording
    /\ workers.transcribe = 1

\* the frames a scripted source has delivered
Delivered == SubSeq(script.frames, 1, script.pos)

\* C17: while a scripted calibration runs, the samples collected are exactly
\* the frames delivered; when it ends with n >= 1 samples the noise floor is
\* exactly their sum divided by n, on_noise_floor_calibrated carries it, and
\* the threshold reported is that mean times the multiplier.
C17_NoiseFloorIsMean ==
    script.kind = "calibration" =>
      /\ speech.is_calibrating => speech.calibration_samples = Delivered
      /\ last = "calibration_done" =>
            /\ script.pos >= 1
            /\ speech.noise_floor[1] * script.pos
                  = Sum(Delivered) * speech.noise_floor[2]
            /\ "on_noise_floor_calibrated" \in emitted
            /\ payload["on_noise_floor_calibrated"] = speech.noise_floor
            /\ payload["on_threshold_updated"] = get_voice_threshold(speech)
            /\ get_voice_threshold(speech)[1] * script.pos * 10
                  = Sum(Delivered) * speech.sensitivity_multiplier
                      * get_voice_threshold(speech)[2]
            /\ ~speech.is_calibrating

\* C17 witness: a calibration that timed out with three samples, whose mean
\* 1010 / 3 is not a whole number
C17_Witness ==
    /\ script.kind = "calibration"
    /\ last = "calibration_done"
    /\ Delivered = <<Low, Voice, Voice>>
    /\ speech.noise_floor = <<2 * Voice + Low, 3>>

\* C18: a calibration whose wait ends with no sample collected leaves the
\* noise floor, the multiplier and so the voice threshold as they were, emits
\* no event, and leaves the endpointer out of calibration mode with no
\* samples.
C18_EmptyCalibrationFails ==
    [][last' = "calibration_failed" =>
          /\ speech.calibration_samples = <<>>
          /\ speech'.noise_floor = speech.noise_floor
          /\ get_voice_threshold(speech') = get_voice_threshold(speech)
          /\ emitted' = {}
          /\ ~speech'.is_calibrating
          /\ speech'.calibration_samples = <<>>]_vars

\* C18 witness: a calibration failed after an earlier one had measured a
\* loud room, and the noise floor measured then is still in force
C18_Witness ==
    /\ last = "calibration_failed"
    /\ speech.noise_floor = <<Voice, 1>>

\* C19: a successful model response adds one question/answer pair to the
\* history and emits on_history_updated with the number of pairs, one more
\* than before; the state is then LISTENING_WAKE_WORD, at once when tts is
\* disabled and else when the synthesis thread ends.
C19_ResponseCountsOnePair ==
    [][/\ last' = "llm_response" =>
            /\ history' = history + 2
            /\ "on_history_updated" \in emitted'
            /\ payload'["on_history_updated"] = (history \div 2) + 1
            /\ state' = IF config.tts_enabled
                        THEN "speaking" ELSE "listening_wake_word"
            /\ config.tts_enabled => workers'.speak = workers.speak + 1
       /\ last' \in {"speak_done", "speak_failed"} =>
            state' = "listening_wake_word"]_vars

\* C19 witness: the first command of a session was answered with tts
\* disabled: one pair, count 1, wake word armed, nothing left in flight
C19_Witness ==
    /\ last = "llm_response"
    /\ ~config.tts_enabled
    /\ history = 2
    /\ payload["on_history_updated"] = 1
    /\ state = "listening_wake_word"
    /\ InFlight(workers) = 0


\* C21: a capture is finalized at most once: while the controller is in
\* RECORDING_COMMAND, the Timer thread runs _recognize_speech only for a
\* capture that is still active, never for one that the frame thread has
\* finalized in the meantime.
C21_FinalizedOnce ==
    [][(last' = "timeout" /\ state = "recording_command")
           => speech.is_recording]_vars


\* a frame has gone through the endpointer's classification
Classified ==
    /\ last' = "frame_to_endpointer"
    /\ speech.is_recording
    /\ ~speech.is_calibrating
    /\ "on_audio_level" \in emitted'

\* the frame was counted as a voice frame
CountedAsVoice ==
    /\ speech'.sound_frames_count = speech.sound_frames_count + 1
    /\ speech'.silent_frames_count = 0

\* C22: a frame processed while capturing is labelled Silence iff it is
\* below the noise floor, VOICE iff it is at or above the voice threshold and
\* Noise otherwise, and it is counted as a voice frame exactly when its
\* label is VOICE.
C22_LabelIsPolicy ==
    [][Classified =>
         LET rms == payload'["on_audio_level"][1]
             label == payload'["on_audio_level"][2]
             floor == speech.noise_floor
             mult == speech.sensitivity_multiplier
         IN  /\ label \in {"Silence", "Noise", "VOICE"}
             /\ (label = "Silence") <=> (rms * floor[2] < floor[1])
             /\ (label = "VOICE") <=> CountedAsVoice]_vars


\* the loudness of the frame that was classified
FrameRms == payload'["on_audio_level"][1]

\* C23: a voice frame received while capturing adds 1 to sound_frames_count,
\* sets silent_frames_count to 0, is appended to the end of the buffer and
\* does not finalize the capture, whatever the counters were.
C23_VoiceFrame ==
    [][(Classified /\ is_voice(speech, FrameRms)) =>
         /\ speech'.sound_frames_count = speech.sound_frames_count + 1
         /\ speech'.silent_frames_count = 0
         /\ speech'.audio_buffer = Append(speech.audio_buffer, FrameRms)
         /\ speech'.is_recording
         /\ workers' = workers
         /\ state' = state]_vars

\* a voice frame has followed a pause frame of the same phrase
C23_Witness ==
    /\ last = "frame_to_endpointer"
    /\ "on_audio_level" \in emitted
    /\ speech.is_recording
    /\ Len(speech.audio_buffer) >= 3
    /\ is_voice(speech, speech.audio_buffer[Len(speech.audio_buffer)])
    /\ ~is_voice(speech, speech.audio_buffer[Len(speech.audio_buffer) - 1])
    /\ speech.sound_frames_count = 2
    /\ speech.silent_frames_count = 0

\* the capture is finalized by this step
Finalized == speech.is_recording /\ ~speech'.is_recording

C25_TimerRearmed ==
    [][/\ (Classified /\ is_voice(speech, FrameRms)) =>
              /\ speech'.recording_timer = "armed"
              /\ speech'.timers = 1
              /\ speech'.timer_started_at = speech'.sound_frames_count
       /\ (last' = "timeout") =>
              /\ speech.timers = 1
              /\ speech.timer_started_at = speech.sound_frames_count]_vars

\* the Timer restarted by a voice frame has fired and finalized the capture
C25_Witness ==
    /\ last = "timeout"
    /\ ~speech.is_recording
    /\ speech.sound_frames_count = 1
    /\ speech.recording_timer = "spent"


\* the Timer fires during a capture
TimeoutWhileCapturing == last' = "timeout" /\ speech.is_recording

\* the rule of _recognize_speech, the one a finalization by silence follows:
\* a buffer shorter than one second is reported as silence at once, with no
\* thread started, and any other buffer goes to one transcription thread
FinalizedByRule ==
    /\ ~speech'.is_recording
    /\ speech'.recording_timer # "armed"
    /\ speech'.timers = 0
    /\ IF too_short(speech)
       THEN /\ workers' = workers
            /\ state' = "listening_wake_word"
            /\ ~wake'.is_recording
            /\ "on_speech_recognized" \notin emitted'
       ELSE /\ workers' = [workers EXCEPT !.transcribe = @ + 1]
            /\ state' = state
            /\ speech'.audio_buffer = <<>>

\* the wake word has just been detected
JustDetected == last = "wake_word_detected" /\ speech.is_recording

\* the Timer has ended the capture and the controller listens again
BackByTimeout == last = "timeout" /\ state = "listening_wake_word"

\* C26: when the capture Timer fires during a capture, the capture is
\* finalized by the rule of a finalization by silence, whatever the counters;
\* and after a detection that no voice frame follows, the controller returns
\* to LISTENING_WAKE_WORD through the Timer.
C26_TimeoutFinalizes ==
    /\ [][TimeoutWhileCapturing => FinalizedByRule]_vars
    /\ (JustDetected ~> (BackByTimeout \/ speech.sound_frames_count > 0))

\* a capture without any voice frame was ended by the Timer: silence, no
\* transcription, no request to the language model
C26_Witness ==
    /\ last = "timeout"
    /\ state = "listening_wake_word"
    /\ speech.sound_frames_count = 0
    /\ speech.audio_buffer = <<>>
    /\ ~speech.is_recording
    /\ ~wake.is_recording
    /\ workers.transcribe = 0
    /\ workers.llm = 0


\* the buffer as _recognize_speech finds it: a finalizing frame is in it
FinalBuffer ==
    IF last' = "frame_to_endpointer"
    THEN Append(speech.audio_buffer, FrameRms)
    ELSE speech.audio_buffer

\* C27: at a finalization, by silence or by the Timer, a buffer of fewer
\* samples than one second starts no transcription and is reported as
\* silence (the controller listens for the wake word again), and any other
\* buffer is handed to one transcription thread; either way the Timer is
\* cancelled and the endpointer stops capturing.
C27_Finalization ==
    [][(Finalized /\ last' \in {"frame_to_endpointer", "timeout"}) =>
         /\ ~speech'.is_recording
         /\ speech'.recording_timer = "spent"
         /\ speech'.timers = 0
         /\ IF Len(FinalBuffer) * speech.chunk_size < speech.sample_rate
            THEN /\ workers'.transcribe = workers.transcribe
                 /\ state' = "listening_wake_word"
                 /\ ~wake'.is_recording
                 /\ emitted' \cap {"on_speech_recognized", "on_error"} = {}
            ELSE /\ workers' = [workers EXCEPT !.transcribe = @ + 1]
                 /\ state' = state
                 /\ wake' = wake]_vars

\* the Timer has finalized a capture of one voice frame, half a second
C27_Witness ==
    /\ last = "timeout"
    /\ Len(speech.audio_buffer) = 1
    /\ ~speech.is_recording
    /\ speech.recording_timer = "spent"
    /\ workers.transcribe = 0
    /\ state = "listening_wake_word"


\* C28: whenever the endpointer is not capturing, after a finalization of
\* either kind and after stop(), the utterance buffer is empty.
C28_BufferDiscarded == ~speech.is_recording => speech.audio_buffer = <<>>


\* C29: start_recording called during a capture is a no-op: a detection of
\* the wake word while the endpointer is capturing leaves the buffer, both
\* counters and the pending Timer as they are.
C29_RestartIsNoOp ==
    [][(last' = "wake_word_detected" /\ speech.is_recording) =>
         speech' = speech]_vars


\* C30: when the transcription or the speech synthesis fails, the controller
\* returns to LISTENING_WAKE_WORD and the observer receives an error event,
\* on_error or on_llm_error.
C30_FailureIsReported ==
    last \in {"speech_failed", "speak_failed"} =>
        /\ state = "listening_wake_word"
        /\ emitted \cap {"on_error", "on_llm_error"} # {}


\* a frame arrives during a calibration, the controller listening for the
\* wake word
CalibrationFrame ==
    /\ last' = "frame_to_endpointer"
    /\ speech.is_calibrating
    /\ state = "listening_wake_word"

\* the frame adds one sample and touches neither the buffer nor the counters
SampleTaken ==
    /\ Len(speech'.calibration_samples) = Len(speech.calibration_samples) + 1
    /\ SubSeq(speech'.calibration_samples, 1, Len(speech.calibration_samples))
           = speech.calibration_samples
    /\ speech'.audio_buffer = speech.audio_buffer
    /\ speech'.sound_frames_count = speech.sound_frames_count
    /\ speech'.silent_frames_count = speech.silent_frames_count

\* C31: during a calibration begun in LISTENING_WAKE_WORD every frame adds
\* exactly one sample to calibration_samples, leaves the utterance buffer
\* and the frame counters as they are, and its progress reaches the observer
\* as on_audio_level.
C31_CalibrationFrame ==
    [][CalibrationFrame =>
           (SampleTaken /\ "on_audio_level" \in emitted')]_vars


\* C32: the noise floor is changed only by the end of a calibration that
\* collected at least one sample, and then to the mean of the samples; frames,
\* start_recording, finalization, the Timer, update_sensitivity, stop() and
\* a stop() followed by start() leave it as it is.
C32_NoiseFloorKept ==
    [][speech'.noise_floor # speech.noise_floor =>
           /\ last' = "calibration_done"
           /\ speech.calibration_samples # <<>>
           /\ speech'.noise_floor = Mean(speech.calibration_samples)]_vars

\* a calibrated noise floor has outlived stop() and a new start()
C32_Witness ==
    /\ last = "init_ok"
    /\ state = "listening_wake_word"
    /\ speech.noise_floor # <<DefaultNoiseFloor, 1>>


\* the transition table of the session state
Transitions ==
    { <<"stopped", "initializing">>,
      <<"initializing", "listening_wake_word">>,
      <<"initializing", "error">>,
      <<"listening_wake_word", "recording_command">>,
      <<"recording_command", "processing_llm">>,
      <<"recording_command", "listening_wake_word">>,
      <<"processing_llm", "speaking">>,
      <<"processing_llm", "listening_wake_word">>,
      <<"speaking", "listening_wake_word">> }
    \cup { <<s, "stopped">> : s \in States }

\* C33: every change of the controller state is a transition of the table;
\* SPEAKING is entered from PROCESSING_LLM only and RECORDING_COMMAND from
\* LISTENING_WAKE_WORD only.
C33_TransitionTable ==
    [][state' # state => <<state, state'>> \in Transitions]_vars


\* C34: in LISTENING_WAKE_WORD with no calibration running the spotter's flag
\* is_recording is clear and the endpointer is not capturing, so that the
\* next frame is examined for the wake word.
C34_ArmedMeansListening ==
    (state = "listening_wake_word" /\ ~speech.is_calibrating) =>
        (~wake.is_recording /\ ~speech.is_recording)


\* C35: with the sensitivity at a level of its scale 1..10 the voice
\* threshold is not below the noise floor, whatever the noise floor, so that
\* no frame under the noise floor can count as voice.
C35_ThresholdAboveFloor ==
    speech.sensitivity \in SensitivityScale =>
        speech.noise_floor[1] * speech.sensitivity_multiplier
            >= speech.noise_floor[1] * 10

\* the _initialize_services thread ends without an exception after stop()
InitAfterStop == state = "stopped" /\ last' = "init_ok"

\* C36: in the stopped state the frame source does not capture, and an
\* initialization thread that ends after stop() neither starts the capture
\* nor leaves the stopped state.
C36_IdleIsQuiet ==
    [][/\ state' = "stopped" => ~audio_is_recording'
       /\ InitAfterStop => (state' = "stopped" /\ ~audio_is_recording')]_vars

\* the handlers after which a capture has just begun or the service was stopped
CountersReset == {"wake_word_detected", "stop", "init_teardown"}

\* C37: the count of pause frames lies in 0..SILENT_FRAMES_TO_STOP, a pause
\* frame is counted only once MIN_SOUND_FRAMES voice frames were, and both
\* counters are 0 right after a capture begins and right after stop().
C37_Counters ==
    /\ speech.silent_frames_count \in 0..speech.SILENT_FRAMES_TO_STOP
    /\ speech.sound_frames_count >= 0
    /\ speech.silent_frames_count > 0 =>
           speech.sound_frames_count >= speech.MIN_SOUND_FRAMES
    /\ last \in CountersReset =>
           (speech.silent_frames_count = 0 /\ speech.sound_frames_count = 0)

\* a capture begins after an earlier one was finalized by its pause
C37_Witness ==
    /\ last = "frame_to_endpointer"
    /\ speech.is_recording
    /\ speech.silent_frames_count > 0
    /\ speech.silent_frames_count < speech.SILENT_FRAMES_TO_STOP
    /\ history > 0

\* the frame is one that the endpointer keeps: a voice frame, or any frame
\* once MIN_SOUND_FRAMES voice frames were counted
Kept ==
    \/ is_voice(speech, FrameRms)
    \/ speech.sound_frames_count >= speech.MIN_SOUND_FRAMES

BegunSinceTest ==
    /\ workers.timeout > 0
    /\ speech.recording_timer = "armed"
    /\ speech.timer_started_at = 0

\* C39: a capture Timer is pending exactly while the endpointer captures
\* (one after start_recording and after every voice frame, none after a
\* finalization or stop()), so that the handler of a Timer started for an
\* earlier capture never finalizes a later one.
C39_NoStaleTimeout ==
    [][/\ workers'.timeout = 0 =>
              /\ speech'.is_recording <=> speech'.recording_timer = "armed"
              /\ speech'.timers = IF speech'.is_recording THEN 1 ELSE 0
       /\ (last' = "timeout" /\ Finalized) => ~BegunSinceTest]_vars

====
